---- MODULE Spec2Model ----
(***************************************************************************)
(* slab-search: the change-detection sync engine (internal/sync/worker.go) *)
(* over the document store (internal/storage/db.go) and the lexical index  *)
(* (internal/search/index.go), and the vector search that reads the store  *)
(* (internal/search/semantic.go).                                          *)
(*                                                                         *)
(* A document key is a number; the remote listing presents its posts in    *)
(* ascending key order.  A timestamp is a number, 0 being the zero time    *)
(* (the value GetUpdatedAt returns for a missing row); the remote's        *)
(* updated_at values are real timestamps, 1..MaxTime.  The content of a    *)
(* document is identified by the updated_at it was fetched at.             *)
(***************************************************************************)
EXTENDS Integers, FiniteSets, Sequences, Bags, TLC

\* ---------------------------------------------------------------- bounds
NumKeys == 3      \* document keys the remote may ever hold
MaxActive == 2    \* posts of the remote that are not archived, at any time
MaxTime == 2      \* remote updated_at values are 1..MaxTime
MaxRuns == 2      \* Sync calls
CancelRuns == 1   \* Sync calls during which the caller may cancel ctx
MaxDim == 2       \* elements of a vector
MaxLimit == 2     \* the result limit of a retrieval call is 1..MaxLimit
MaxHitScore == 2  \* lexical scores are 1..MaxHitScore
MaxClock == 1     \* the wall clock runs from 0 to MaxClock
QueueLen == 22    \* posts put in postChan in a run of the worker pool

\* ------------------------------------------------------ program constants
\* worker.go:102  concurrency := 20
concurrency == 20

Keys == 1..NumKeys
Times == 1..MaxTime
ZeroTime == 0

\* ------------------------------------------------------- embedding codec
\* math.Float32bits of the float32 values -1, 0, 1, 2, 3, 4: the 32 bits as
\* <<high 16, low 16>>.
FloatValues == -1..4
Float32bits(x) ==
    CASE x = 0 -> <<0, 0>>
      [] x = 1 -> <<16256, 0>>
      [] x = 2 -> <<16384, 0>>
      [] x = 3 -> <<16448, 0>>
      [] x = 4 -> <<16512, 0>>
      [] x = -1 -> <<49024, 0>>

\* math.Float32frombits, on the bits of these values.
Float32frombits(bits) == CHOOSE x \in FloatValues : Float32bits(x) = bits

\* float32 elements of a vector, as their bits: the values above, 0.1, a NaN
\* with a payload, and all bits set.
Float32s == {Float32bits(x) : x \in FloatValues} \cup
            {<<15820, 52429>>, <<32704, 1>>, <<65535, 65535>>}

RECURSIVE VectorsOfLen(_)
VectorsOfLen(n) ==
    IF n = 0 THEN {<<>>}
    ELSE {Append(v, x) : v \in VectorsOfLen(n - 1), x \in Float32s}

Vectors == UNION {VectorsOfLen(n) : n \in 0..MaxDim}

\* mutant: the bytes are written most significant first
PutUint32BigEndian(bits) ==
    <<bits[1] \div 256, bits[1] % 256, bits[2] \div 256, bits[2] % 256>>

\* binary.LittleEndian.PutUint32: least significant byte first.
PutUint32(bits) ==
    <<bits[2] % 256, bits[2] \div 256, bits[1] % 256, bits[1] \div 256>>

\* binary.LittleEndian.Uint32 of 4 bytes.
Uint32(b) == <<b[3] + 256 * b[4], b[1] + 256 * b[2]>>

\* SerializeEmbedding: 4 bytes per element, in order.
RECURSIVE SerializeEmbedding(_)
SerializeEmbedding(v) ==
    IF v = <<>> THEN <<>>
    ELSE PutUint32(Head(v)) \o SerializeEmbedding(Tail(v))

\* DeserializeEmbedding: nil (a slice of length 0) for no bytes or a length
\* that is not a multiple of 4.
DeserializeEmbedding(d) ==
    IF Len(d) = 0 \/ Len(d) % 4 # 0
    THEN <<>>
    ELSE [i \in 1..(Len(d) \div 4) |-> Uint32(SubSeq(d, 4 * i - 3, 4 * i))]

\* Embedder.Embed of a text: a vector that depends on the text, here on the
\* version (updated_at) of the post it was fetched from.
EmbedResult(version) == <<Float32bits(version), Float32bits(1)>>

VARIABLES
    remote,       \* the remote service: key -> [state, updatedAt]
    db,           \* documents table: key -> NoRow or a row
    index,        \* lexical index: key -> 0 (no entry) or the indexed version
    maxPosts,     \* Worker.maxPosts
    enableEmbeddings, \* Worker.enableEmbeddings
    mainpc,       \* position of the goroutine that called Sync
    runs,         \* number of Sync calls started
    allPosts,     \* Sync's allPosts map (its key set)
    archivedPostIDs, \* Sync's archivedPostIDs
    pc,           \* per queued document: position of the worker holding it
    existing,     \* syncPost's existingUpdatedAt, per document
    docEmb,       \* syncPost's doc.Embedding, per document
    tmp,          \* the counter value a goroutine read for its ++
    mu,           \* goroutines holding Sync's mutex
    stats,        \* Sync's *Stats
    processed,    \* Sync's processed counter
    result,       \* what Sync returned: "none", "stats", "error"
    cancelled,    \* ctx.Done() is closed
    calls,        \* per document: collaborator calls made for it in this run
    counted,      \* per document: stats fields incremented for it in this run
    delFailed,    \* archived ids whose index.Delete failed in this run
    db0,          \* db when the current run started
    index0,       \* index when the current run started
    listing,      \* Sync's allPostsSlice: what GetAllSlimPosts returned
    listErr,      \* GetAllSlimPosts returned an error in this run
    prev,         \* the previous Sync call: its outcome and its listing
    reporter      \* position of the progress goroutine of the current run

\* The retrieval calls and the embedding codec are functions of their
\* arguments and of the store and index contents they read.
VARIABLES
    hits,         \* the lexical index's ranking for the query string
    search,       \* the last retrieval call: arguments and what it returned
    vec,          \* a []float32, each element its 32 bits as <<high, low>>
    data,         \* a []byte
    codec         \* which codec function produced vec or data last

\* The embed command (runEmbed) is another process on the same database file.
VARIABLES
    now,          \* the wall clock, time.Now()
    embed         \* runEmbed: its position, its docs slice and its flag

\* The worker pool of Sync, with syncPost as one call.
VARIABLES
    postChan,     \* the posts waiting in the channel, first in first out
    workers,      \* the bag of posts the goroutines' syncPost calls are in
    received,     \* per post: how many times it was received from the channel
    slow,         \* the posts whose syncPost call blocks
    finished      \* the posts whose syncPost call has returned

searchVars == <<hits, search>>
queueVars == <<postChan, workers, received, slow, finished>>
codecVars == <<vec, data, codec>>
embedVars == <<now, embed>>
otherVars == <<searchVars, codecVars, embedVars, queueVars>>

vars == <<remote, db, index, maxPosts, enableEmbeddings, mainpc, runs, allPosts,
          archivedPostIDs, pc, existing, docEmb, tmp, mu, stats, processed,
          result, cancelled, calls, counted, delFailed, db0, index0,
          listing, listErr, prev, reporter, otherVars>>

NoSearch == [op |-> "none"]
NoCodec == [op |-> "none"]
NoEmbed == [pc |-> "none"]

\* no worker pool is part of the behaviour
QueueIdle ==
    /\ postChan = <<>>
    /\ workers = EmptyBag
    /\ received = <<>>
    /\ slow = {}
    /\ finished = {}

\* no retrieval call and no codec call is part of the behaviour
OthersIdle ==
    /\ hits = <<>>
    /\ search = NoSearch
    /\ vec = <<>>
    /\ data = <<>>
    /\ codec = NoCodec
    /\ now = 0
    /\ embed = NoEmbed
    /\ QueueIdle

\* ------------------------------------------------------------ data types
NoRow == [updatedAt |-> ZeroTime, archivedAt |-> FALSE, embedding |-> <<>>,
          embeddingQwen |-> <<>>, present |-> FALSE]

\* storage.Document as syncPost builds it (worker.go:217-252): ArchivedAt is
\* the slim post's, EmbeddingQwen is never set.
Document(updatedAt, archivedAt, embedding) ==
    [updatedAt |-> updatedAt, archivedAt |-> archivedAt, embedding |-> embedding,
     embeddingQwen |-> <<>>, present |-> TRUE]

ZeroStats == [TotalPosts |-> 0, NewPosts |-> 0, UpdatedPosts |-> 0,
              SkippedPosts |-> 0, ArchivedRemoved |-> 0, EmbeddingsGen |-> 0,
              EmbeddingsFailed |-> 0, Errors |-> 0]

\* a post of the remote listing (slab.SlimPost); ArchivedAt # nil is TRUE
SlimPost(id, updatedAt, archivedAt) ==
    [ID |-> id, UpdatedAt |-> updatedAt, ArchivedAt |-> archivedAt]

NoPrev == [returned |-> FALSE, clean |-> FALSE, same |-> FALSE]

Running == mainpc = "workers"
Stopped == mainpc = "idle"
Ended == mainpc \in {"returned", "failed", "crashed"}

\* ------------------------------------------------------ the remote service
Active == {k \in Keys : remote[k].state = "active"}

RECURSIVE PostsFrom(_)
PostsFrom(k) ==
    IF k > NumKeys THEN <<>>
    ELSE IF remote[k].state = "absent" THEN PostsFrom(k + 1)
    ELSE <<SlimPost(k, remote[k].updatedAt, remote[k].state = "archived")>>
         \o PostsFrom(k + 1)

\* Client.GetAllSlimPosts: every post of the organization, archived ones too.
GetAllSlimPosts == PostsFrom(1)

\* --------------------------------------------------------- storage/db.go
\* mutant: the lookup finds no row
GetUpdatedAtNoRow(id) == ZeroTime

\* DB.GetUpdatedAt: the stored updated_at, the zero time when no row exists.
GetUpdatedAt(id) == IF db[id].present THEN db[id].updatedAt ELSE ZeroTime

\* mutant: a column the document leaves empty keeps its stored value
UpsertKeepsEmbeddings(old, doc) ==
    IF old.present
    THEN [doc EXCEPT
            !.embedding = IF doc.embedding = <<>> THEN old.embedding ELSE @,
            !.embeddingQwen = IF doc.embeddingQwen = <<>>
                              THEN old.embeddingQwen ELSE @]
    ELSE doc

\* DB.Upsert: the row `old` (NoRow when the id is new) becomes the document;
\* on conflict every column is set to the document's value.
UpsertRow(old, doc) == doc

\* DB.List: the keys of the rows the query selects.
List(includeArchived) ==
    {k \in Keys : db[k].present /\ (includeArchived \/ ~db[k].archivedAt)}

\* ------------------------------------------------- search/semantic.go
\* SemanticSearch, lines 16-49: the documents that get a score.
\* SemanticSearch lines 30-35: the embedding field the call uses.
Slot(k, useQwen) == IF useQwen THEN db[k].embeddingQwen ELSE db[k].embedding

\* mutant: no document is skipped
SemanticCandidatesAll(useQwen) == List(FALSE)

SemanticCandidates(useQwen) ==
    {k \in List(FALSE) :
        /\ Len(Slot(k, useQwen)) # 0
        /\ DeserializeEmbedding(Slot(k, useQwen)) # <<>>}

\* float arithmetic, on exact fractions <<numerator, denominator>> with a
\* positive denominator
Zero == <<0, 1>>
One == <<1, 1>>
Less(a, b) == a[1] * b[2] < b[1] * a[2]
Equal(a, b) == a[1] * b[2] = b[1] * a[2]
Add(a, b) == <<a[1] * b[2] + b[1] * a[2], a[2] * b[2]>>
Sub(a, b) == <<a[1] * b[2] - b[1] * a[2], a[2] * b[2]>>
Mul(a, b) == <<a[1] * b[1], a[2] * b[2]>>
Div(a, b) == <<a[1] * b[2], a[2] * b[1]>>
Sqrt(n) == CHOOSE r \in 0..n : r * r = n

RECURSIVE DotProduct(_, _)
DotProduct(a, b) ==
    IF a = <<>> THEN 0
    ELSE Float32frombits(Head(a)) * Float32frombits(Head(b))
         + DotProduct(Tail(a), Tail(b))

\* embeddings.CosineSimilarity: 0 for different lengths or a zero norm.
CosineSimilarity(a, b) ==
    IF Len(a) # Len(b) THEN Zero
    ELSE IF DotProduct(a, a) = 0 \/ DotProduct(b, b) = 0 THEN Zero
    ELSE <<DotProduct(a, b), Sqrt(DotProduct(a, a)) * Sqrt(DotProduct(b, b))>>

SearchResult(id, score) == [ID |-> id, Score |-> score]

IDs(results) == {results[i].ID : i \in 1..Len(results)}
ScoreOf(results, id) ==
    (CHOOSE r \in {results[i] : i \in 1..Len(results)} : r.ID = id).Score

SortedDesc(results) ==
    \A i \in 1..(Len(results) - 1) : ~Less(results[i].Score, results[i + 1].Score)

\* sort.Slice with the comparison Score > Score: some arrangement of the
\* elements in which no element is followed by a greater one; the order of
\* elements with equal scores is not determined.
SortSlice(elems) ==
    {o \in [1..Cardinality(elems) -> elems] :
        /\ \A i, j \in 1..Cardinality(elems) : o[i] = o[j] => i = j
        /\ SortedDesc(o)}

Min(a, b) == IF a < b THEN a ELSE b

\* mutant: the list is not cut
TopNAll(results, limit) == results

\* SemanticSearch line 58, HybridSearch lines 131-133, and the size of a
\* lexical search request.
TopN(results, limit) == SubSeq(results, 1, Min(limit, Len(results)))

\* Index.SemanticSearch lines 21-69: what the call can return when List
\* succeeds.
SemanticSearch(queryEmbedding, limit, useQwen) ==
    {TopN(o, limit) : o \in SortSlice(
        {SearchResult(k, CosineSimilarity(queryEmbedding,
                             DeserializeEmbedding(Slot(k, useQwen)))) :
            k \in SemanticCandidates(useQwen)})}

\* Index.Search: the first `limit` hits of the index's ranking.
Search(limit) == TopN(hits, limit)

MinScore(results) ==
    CHOOSE m \in {results[i].Score : i \in 1..Len(results)} :
        \A i \in 1..Len(results) : ~Less(results[i].Score, m)
MaxScore(results) ==
    CHOOSE m \in {results[i].Score : i \in 1..Len(results)} :
        \A i \in 1..Len(results) : ~Less(m, results[i].Score)

\* mutant: no case for equal scores
normalizeScoresNoRangeCheck(results) ==
    [id \in IDs(results) |->
        IF Equal(MaxScore(results), MinScore(results)) THEN Zero
        ELSE Div(Sub(ScoreOf(results, id), MinScore(results)),
                 Sub(MaxScore(results), MinScore(results)))]

\* normalizeScores: a map from ID to the normalized score.
normalizeScores(results) ==
    IF Len(results) = 0 THEN [id \in {} |-> One]
    ELSE LET scoreRange == Sub(MaxScore(results), MinScore(results))
         IN [id \in IDs(results) |->
                IF Equal(scoreRange, Zero) THEN One
                ELSE Div(Sub(ScoreOf(results, id), MinScore(results)),
                          scoreRange)]

\* mutant: the weight is not checked
WeightNotChecked(keywordWeight) == FALSE

\* HybridSearch lines 77-79.
InvalidWeight(keywordWeight) == Less(keywordWeight, Zero) \/ Less(One, keywordWeight)

\* mutant: a document of both sets gets the greater of its two terms
CombinedScoresMax(keywordResults, semanticResults, keywordWeight) ==
    LET k(id) == IF id \in IDs(keywordResults)
                 THEN Mul(normalizeScores(keywordResults)[id], keywordWeight)
                 ELSE Zero
        v(id) == IF id \in IDs(semanticResults)
                 THEN Mul(normalizeScores(semanticResults)[id],
                          Sub(One, keywordWeight))
                 ELSE Zero
    IN {SearchResult(id, IF Less(k(id), v(id)) THEN v(id) ELSE k(id)) :
         id \in IDs(keywordResults) \cup IDs(semanticResults)}

\* HybridSearch lines 95-118: the combined score of each candidate.
CombinedScores(keywordResults, semanticResults, keywordWeight) ==
    LET keywordScores == normalizeScores(keywordResults)
        semanticScores == normalizeScores(semanticResults)
        semanticWeight == Sub(One, keywordWeight)
    IN {SearchResult(id,
            IF id \in IDs(keywordResults)
            THEN IF id \in IDs(semanticResults)
                 THEN Add(Mul(keywordScores[id], keywordWeight),
                           Mul(semanticScores[id], semanticWeight))
                 ELSE Mul(keywordScores[id], keywordWeight)
            ELSE Mul(semanticScores[id], semanticWeight)) :
         id \in IDs(keywordResults) \cup IDs(semanticResults)}

\* HybridSearch lines 120-135: what the call can return for given candidates.
HybridSearch(keywordResults, semanticResults, limit, keywordWeight) ==
    {TopN(o, limit) : o \in SortSlice(
        CombinedScores(keywordResults, semanticResults, keywordWeight))}

\* ---------------------------------------------------- sync/worker.go
\* Sync, line 81: the maxPosts limit is set and reached.
CapReached(cap, postCount) == cap > 0 /\ postCount >= cap

\* Sync, lines 73-88: the filter loop over allPostsSlice from position i.
RECURSIVE FilterPosts(_, _, _, _, _)
FilterPosts(posts, i, all, archived, cap) ==
    IF i > Len(posts) THEN [allPosts |-> all, archivedPostIDs |-> archived]
    ELSE IF posts[i].ArchivedAt
         THEN FilterPosts(posts, i + 1, all, archived \cup {posts[i].ID}, cap)
    ELSE IF CapReached(cap, Cardinality(all))
         THEN [allPosts |-> all, archivedPostIDs |-> archived]
    ELSE FilterPosts(posts, i + 1, all \cup {posts[i].ID}, archived, cap)

\* the slim post of document d in the listing of the current run
SlimPostOf(d) == CHOOSE p \in {listing[i] : i \in 1..Len(listing)} : p.ID = d

\* mutant: the timestamps are not compared, every post is fetched
UnchangedNever(existingUpdatedAt, remoteUpdatedAt) == FALSE

\* syncPost, line 191: the post exists and has not been updated.
Unchanged(existingUpdatedAt, remoteUpdatedAt) ==
    existingUpdatedAt # ZeroTime /\ existingUpdatedAt = remoteUpdatedAt

\* syncPost, lines 282-288: the counter of a persisted and indexed post.
CountField(existingUpdatedAt) ==
    IF existingUpdatedAt = ZeroTime THEN "NewPosts" ELSE "UpdatedPosts"

\* the progress goroutine, as a holder of the mutex
Reporter == 0

\* mutant: Lock returns without the mutex
LockNothing(g) == mu

\* sync.Mutex: goroutine g holds the mutex when Lock returns.
Lock(g) == mu \cup {g}

\* mutant: Lock does not wait
MuNotChecked == TRUE

\* sync.Mutex: Lock returns only when nobody holds the mutex.
MuFree == mu = {}

\* the posts that worker goroutines hold
InFlight == {d \in Keys : pc[d] \notin {"none", "queued", "done"}}

Read(field) == IF field = "processed" THEN processed ELSE stats[field]

\* what no step of a worker goroutine writes
workerFrame == <<remote, maxPosts, enableEmbeddings, runs, allPosts,
                 archivedPostIDs, delFailed, db0, index0, listing, listErr,
                 prev, cancelled, result, reporter, otherVars>>

\* mu.Lock() and the read of `field` by the goroutine holding document d.
Acquire(d, cur, field, nxt) ==
    /\ Running
    /\ pc[d] = cur
    /\ MuFree
    /\ mu' = Lock(d)
    /\ tmp' = [tmp EXCEPT ![d] = Read(field)]
    /\ pc' = [pc EXCEPT ![d] = nxt]
    /\ UNCHANGED <<workerFrame, db, index, mainpc, existing, docEmb, stats,
                   processed, calls, counted>>

\* the write of `field`++ and mu.Unlock().
Release(d, cur, field, nxt) ==
    /\ Running
    /\ pc[d] = cur
    /\ mu' = mu \ {d}
    /\ tmp' = [tmp EXCEPT ![d] = 0]
    /\ IF field = "processed"
       THEN /\ processed' = tmp[d] + 1
            /\ UNCHANGED <<stats, counted>>
       ELSE /\ stats' = [stats EXCEPT ![field] = tmp[d] + 1]
            /\ counted' = [counted EXCEPT ![d] = @ \cup {field}]
            /\ UNCHANGED processed
    /\ pc' = [pc EXCEPT ![d] = nxt]
    /\ UNCHANGED <<workerFrame, db, index, mainpc, existing, docEmb, calls>>

SyncInit ==
    /\ remote = [k \in Keys |-> [state |-> "absent", updatedAt |-> 1]]
    /\ index = [k \in Keys |-> 0]
    /\ maxPosts \in {0, 1}
    /\ enableEmbeddings \in BOOLEAN
    /\ mainpc = "idle"
    /\ runs = 0
    /\ allPosts = {}
    /\ archivedPostIDs = {}
    /\ pc = [k \in Keys |-> "none"]
    /\ existing = [k \in Keys |-> ZeroTime]
    /\ docEmb = [k \in Keys |-> <<>>]
    /\ tmp = [k \in Keys |-> 0]
    /\ mu = {}
    /\ stats = ZeroStats
    /\ processed = 0
    /\ result = "none"
    /\ cancelled = FALSE
    /\ calls = [k \in Keys |-> {}]
    /\ counted = [k \in Keys |-> {}]
    /\ delFailed = {}
    /\ index0 = index
    /\ listing = <<>>
    /\ listErr = FALSE
    /\ prev = NoPrev
    /\ reporter = "none"

Init ==
    /\ db = [k \in Keys |-> NoRow]
    /\ db0 = db
    /\ SyncInit
    /\ OthersIdle

\* what the remote service does not touch
localState == <<db, index, maxPosts, enableEmbeddings, mainpc, runs, allPosts,
                archivedPostIDs, pc, existing, docEmb, tmp, mu, stats,
                processed, result, cancelled, calls, counted, delFailed, db0,
                index0, listing, listErr, prev, reporter>>

syncVars == <<remote, localState>>

\* A post is published; the listing is newest first, so the new post takes
\* the key before the posts that exist.
RemoteCreate(k) ==
    /\ Stopped
    /\ runs < MaxRuns
    /\ remote[k].state = "absent"
    /\ \A j \in Keys : j > k => remote[j].state # "absent"
    /\ Cardinality(Active) < MaxActive
    /\ remote' = [remote EXCEPT ![k].state = "active"]
    /\ UNCHANGED <<localState, otherVars>>

\* A post that has been synced is edited: its updated_at moves forward (the
\* updated_at of a post without a local row is compared with nothing).
RemoteEdit(k) ==
    /\ Stopped
    /\ runs < MaxRuns
    /\ remote[k].state = "active"
    /\ db[k].present
    /\ remote[k].updatedAt < MaxTime
    /\ remote' = [remote EXCEPT ![k].updatedAt = @ + 1]
    /\ UNCHANGED <<localState, otherVars>>

\* A post is archived; the remote never un-archives.
RemoteArchive(k) ==
    /\ Stopped
    /\ runs < MaxRuns
    /\ remote[k].state = "active"
    /\ remote' = [remote EXCEPT ![k].state = "archived"]
    /\ UNCHANGED <<localState, otherVars>>

\* ------------------------------------------------------------ Worker.Sync
\* mutant: the error of the listing is dropped
ListingErrorIgnored(outcome) == FALSE

\* Sync, lines 61-64: GetAllSlimPosts returned an error.
ListingFailed(outcome) == outcome = "error"

\* mutant: TotalPosts is never set
TotalPostsUnset(all) == 0

\* Sync, line 90: stats.TotalPosts = len(allPosts).
TotalPosts(all) == Cardinality(all)

\* Sync, lines 53-105 and 135-153: the listing, the filter loop, the queue
\* filled and closed, the worker goroutines started; or the early return.
Sync ==
    /\ Stopped
    /\ runs < MaxRuns
    /\ runs' = runs + 1
    /\ db0' = db
    /\ index0' = index
    /\ existing' = [k \in Keys |-> ZeroTime]
    /\ docEmb' = [k \in Keys |-> <<>>]
    /\ tmp' = [k \in Keys |-> 0]
    /\ processed' = 0
    /\ cancelled' = FALSE
    /\ calls' = [k \in Keys |-> {}]
    /\ counted' = [k \in Keys |-> {}]
    /\ delFailed' = {}
    /\ \E outcome \in {"ok", "error"} :
        /\ listErr' = (outcome = "error")
        /\ IF ListingFailed(outcome)
           THEN /\ mainpc' = "failed"
                /\ result' = "error"
                /\ listing' = <<>>
                /\ allPosts' = {}
                /\ archivedPostIDs' = {}
                /\ pc' = [k \in Keys |-> "none"]
                /\ stats' = ZeroStats
                /\ prev' = NoPrev
                /\ UNCHANGED <<reporter, mu>>
           ELSE LET posts == GetAllSlimPosts
                    f == FilterPosts(posts, 1, {}, {}, maxPosts)
                IN
                /\ mainpc' = "workers"
                /\ result' = "none"
                /\ listing' = posts
                /\ allPosts' = f.allPosts
                /\ archivedPostIDs' = f.archivedPostIDs
                /\ pc' = [k \in Keys |->
                            IF k \in f.allPosts THEN "queued" ELSE "none"]
                /\ stats' = [ZeroStats EXCEPT
                                !.TotalPosts = TotalPosts(f.allPosts)]
                /\ prev' = IF prev.returned
                           THEN [prev EXCEPT !.same = (listing = posts)]
                           ELSE NoPrev
                /\ reporter' = "range"
                /\ mu' = {}
    /\ UNCHANGED <<otherVars, remote, db, index, maxPosts, enableEmbeddings>>

\* The caller cancels ctx while the workers run.
Cancel ==
    /\ Running
    /\ runs <= CancelRuns
    /\ ~cancelled
    /\ cancelled' = TRUE
    /\ UNCHANGED <<otherVars, remote, db, index, maxPosts, enableEmbeddings, mainpc, runs,
                   allPosts, archivedPostIDs, pc, existing, docEmb, tmp, mu,
                   stats, processed, result, calls, counted, delFailed, db0,
                   index0, listing, listErr, prev, reporter>>

Called(d, name) == calls' = [calls EXCEPT ![d] = @ \cup {name}]

\* Sync line 139 and syncPost lines 185-196: a free worker receives the post
\* from postChan and looks up the stored updated_at.
SyncPostLookup(d) ==
    /\ Running
    /\ pc[d] = "queued"
    /\ Cardinality(InFlight) < concurrency
    /\ Called(d, "GetUpdatedAt")
    /\ \E ok \in BOOLEAN :
        IF ok
        THEN /\ existing' = [existing EXCEPT ![d] = GetUpdatedAt(d)]
             /\ pc' = [pc EXCEPT ![d] =
                         IF Unchanged(GetUpdatedAt(d), SlimPostOf(d).UpdatedAt)
                         THEN "lockSkipped" ELSE "markdown"]
        ELSE /\ pc' = [pc EXCEPT ![d] = "lockErrors"]
             /\ UNCHANGED existing
    /\ UNCHANGED <<workerFrame, db, index, mainpc, docEmb, tmp, mu, stats,
                   processed, counted>>

\* syncPost lines 192-195: stats.SkippedPosts++ under the mutex, return nil.
LockSkipped(d) == Acquire(d, "lockSkipped", "SkippedPosts", "incSkipped")
IncSkipped(d) == Release(d, "incSkipped", "SkippedPosts", "lockProcessed")

\* a call that returned an error
Failed(d, name, failure) ==
    calls' = [calls EXCEPT ![d] = @ \cup {name, failure}]

\* mutant: the error of a fetch is dropped and the document goes on
FetchErrorIgnored == "upsert"

\* syncPost lines 200-202 and 206-208: the error of a fetch is returned.
FetchError == "lockErrors"

\* syncPost lines 199-202: the body fetch; a request on a cancelled context
\* returns an error.
GetMarkdown(d) ==
    /\ Running
    /\ pc[d] = "markdown"
    /\ \E ok \in BOOLEAN :
        /\ cancelled => ~ok
        /\ IF ok THEN Called(d, "GetMarkdown")
                 ELSE Failed(d, "GetMarkdown", "GetMarkdown failed")
        /\ pc' = [pc EXCEPT ![d] = IF ok THEN "post" ELSE FetchError]
    /\ UNCHANGED <<workerFrame, db, index, mainpc, existing, docEmb, tmp, mu,
                   stats, processed, counted>>

\* syncPost lines 205-232: the owner-metadata fetch and the document built
\* from it.  Client.GetPost returns (nil, nil) when the remote answers
\* post: null; line 229 then dereferences the nil post and the panic ends
\* the process.
GetPost(d) ==
    /\ Running
    /\ pc[d] = "post"
    /\ \E r \in {"post", "null", "error"} :
        /\ cancelled => r = "error"
        /\ IF r = "error" THEN Failed(d, "GetPost", "GetPost failed")
                          ELSE Called(d, "GetPost")
        /\ IF r = "null"
           THEN /\ mainpc' = "crashed"
                /\ UNCHANGED pc
           ELSE /\ pc' = [pc EXCEPT ![d] =
                            IF r = "error" THEN FetchError
                            ELSE IF enableEmbeddings THEN "embed" ELSE "upsert"]
                /\ UNCHANGED mainpc
    /\ UNCHANGED <<workerFrame, db, index, existing, docEmb, tmp, mu, stats,
                   processed, counted>>

\* mutant: a failed embedding is counted as generated
EmbedCounterAlwaysGen(ok) == "lockEmbGen"

\* syncPost lines 240-251: the counter the Embed result increments.
EmbedCounter(ok) == IF ok THEN "lockEmbGen" ELSE "lockEmbFailed"

\* syncPost lines 235-240: the embedding of the fetched title and body.
Embed(d) ==
    /\ Running
    /\ pc[d] = "embed"
    /\ Called(d, "Embed")
    /\ \E ok \in BOOLEAN :
        /\ pc' = [pc EXCEPT ![d] = EmbedCounter(ok)]
        /\ IF ok
           THEN docEmb' = [docEmb EXCEPT ![d] =
                    SerializeEmbedding(EmbedResult(SlimPostOf(d).UpdatedAt))]
           ELSE UNCHANGED docEmb
    /\ UNCHANGED <<workerFrame, db, index, mainpc, existing, tmp, mu, stats,
                   processed, counted>>

\* mutant: a failed embedding fails the document
EmbedFailureReturnsError == "lockErrors"

\* syncPost line 245: after EmbeddingsFailed++ the document goes on to the
\* upsert, without an embedding.
EmbedFailureContinues == "upsert"

\* syncPost lines 242-244 and 248-250.
LockEmbFailed(d) == Acquire(d, "lockEmbFailed", "EmbeddingsFailed", "incEmbFailed")
IncEmbFailed(d) == Release(d, "incEmbFailed", "EmbeddingsFailed", EmbedFailureContinues)
LockEmbGen(d) == Acquire(d, "lockEmbGen", "EmbeddingsGen", "incEmbGen")
IncEmbGen(d) == Release(d, "incEmbGen", "EmbeddingsGen", "upsert")

\* syncPost lines 255-257 and DB.Upsert: the whole row is replaced.
Upsert(d) ==
    /\ Running
    /\ pc[d] = "upsert"
    /\ Called(d, "Upsert")
    /\ \E ok \in BOOLEAN :
        IF ok
        THEN /\ db' = [db EXCEPT ![d] = UpsertRow(db[d],
                          Document(SlimPostOf(d).UpdatedAt,
                                   SlimPostOf(d).ArchivedAt, docEmb[d]))]
             /\ pc' = [pc EXCEPT ![d] = "index"]
        ELSE /\ pc' = [pc EXCEPT ![d] = "lockErrors"]
             /\ UNCHANGED db
    /\ UNCHANGED <<workerFrame, index, mainpc, existing, docEmb, tmp, mu, stats,
                   processed, counted>>

\* syncPost lines 260-278 and Index.IndexDocument.
IndexDocument(d) ==
    /\ Running
    /\ pc[d] = "index"
    /\ Called(d, "IndexDocument")
    /\ \E ok \in BOOLEAN :
        IF ok
        THEN /\ index' = [index EXCEPT ![d] = SlimPostOf(d).UpdatedAt]
             /\ pc' = [pc EXCEPT ![d] = "lockCount"]
        ELSE /\ pc' = [pc EXCEPT ![d] = "lockErrors"]
             /\ UNCHANGED index
    /\ UNCHANGED <<workerFrame, db, mainpc, existing, docEmb, tmp, mu, stats,
                   processed, counted>>

\* syncPost lines 281-291: NewPosts++ or UpdatedPosts++ under the mutex.
LockCount(d) == Acquire(d, "lockCount", CountField(existing[d]), "incCount")
IncCount(d) == Release(d, "incCount", CountField(existing[d]), "lockProcessed")

\* Sync lines 140-145: syncPost returned an error.
LockErrors(d) == Acquire(d, "lockErrors", "Errors", "incErrors")
IncErrors(d) == Release(d, "incErrors", "Errors", "lockProcessed")

\* Sync lines 147-150: processed++ under the mutex, then the next post.
LockProcessed(d) == Acquire(d, "lockProcessed", "processed", "incProcessed")
IncProcessed(d) == Release(d, "incProcessed", "processed", "done")

\* Index.Delete of the ids not in `failed`.
Delete(ids, failed) ==
    [k \in Keys |-> IF k \in ids \ failed THEN 0 ELSE index[k]]

\* mutant: a failed Delete is counted as a removal
ArchivedRemovedAll(ids, failed) == Cardinality(ids)

\* Sync lines 160-166: ArchivedRemoved++ for each Delete that returned nil.
ArchivedRemoved(ids, failed) == Cardinality(ids \ failed)

\* Sync lines 155-179: wg.Wait returns once the queue is drained and every
\* worker has returned; the archived posts are deleted from the index one by
\* one, a failed Delete is logged; the stats are returned.
FinishSync ==
    /\ Running
    /\ \A d \in Keys : pc[d] \in {"none", "done"}
    /\ \E failed \in SUBSET archivedPostIDs :
        /\ index' = Delete(archivedPostIDs, failed)
        /\ stats' = [stats EXCEPT
                        !.ArchivedRemoved = ArchivedRemoved(archivedPostIDs, failed)]
        /\ counted' = [k \in Keys |->
                         IF k \in archivedPostIDs \ failed
                         THEN counted[k] \cup {"ArchivedRemoved"} ELSE counted[k]]
        /\ delFailed' = failed
    /\ mainpc' = "returned"
    /\ result' = "stats"
    /\ UNCHANGED <<otherVars, remote, db, maxPosts, enableEmbeddings, runs, allPosts,
                   archivedPostIDs, pc, existing, docEmb, tmp, mu, processed,
                   cancelled, calls, db0, index0, listing, listErr, prev,
                   reporter>>

\* The Sync call is over (it returned, or the process died): what it leaves
\* behind is the store, the index and what the caller saw.
Exit ==
    /\ Ended
    /\ mainpc' = "idle"
    /\ prev' = IF mainpc = "returned"
               THEN [returned |-> TRUE, clean |-> stats.Errors = 0, same |-> FALSE]
               ELSE NoPrev
    /\ listing' = IF mainpc = "returned" THEN listing ELSE <<>>
    /\ allPosts' = {}
    /\ archivedPostIDs' = {}
    /\ pc' = [k \in Keys |-> "none"]
    /\ existing' = [k \in Keys |-> ZeroTime]
    /\ docEmb' = [k \in Keys |-> <<>>]
    /\ tmp' = [k \in Keys |-> 0]
    /\ mu' = IF mainpc = "crashed" THEN {} ELSE mu \cap {Reporter}
    /\ stats' = ZeroStats
    /\ processed' = 0
    /\ result' = "none"
    /\ cancelled' = FALSE
    /\ calls' = [k \in Keys |-> {}]
    /\ counted' = [k \in Keys |-> {}]
    /\ delFailed' = {}
    /\ db0' = db
    /\ index0' = index
    /\ listErr' = FALSE
    /\ reporter' = IF mainpc = "crashed" THEN "none" ELSE reporter
    /\ UNCHANGED <<otherVars, remote, db, index, maxPosts, enableEmbeddings, runs>>

Worker(d) ==
    \/ SyncPostLookup(d)
    \/ LockSkipped(d) \/ IncSkipped(d)
    \/ GetMarkdown(d)
    \/ GetPost(d)
    \/ Embed(d)
    \/ LockEmbFailed(d) \/ IncEmbFailed(d)
    \/ LockEmbGen(d) \/ IncEmbGen(d)
    \/ Upsert(d)
    \/ IndexDocument(d)
    \/ LockCount(d) \/ IncCount(d)
    \/ LockErrors(d) \/ IncErrors(d)
    \/ LockProcessed(d) \/ IncProcessed(d)

Next ==
    \/ \E k \in Keys : RemoteCreate(k)
    \/ \E k \in Keys : RemoteEdit(k)
    \/ \E k \in Keys : RemoteArchive(k)
    \/ Sync
    \/ Cancel
    \/ \E d \in Keys : Worker(d)
    \/ FinishSync
    \/ Exit

Spec == Init /\ [][Next]_vars

\* goroutines that are runnable get to run; the caller may never call Sync
\* again, and the remote may never change.
RunStep == (\E d \in Keys : Worker(d)) \/ FinishSync

FairSpec == Init /\ [][Next]_vars /\ WF_vars(RunStep)

\* ---------------------------------------------------- the reindex command
\* Index.Rebuild, called by runReindex between sync runs (the index file is
\* opened by one process at a time): db.List(false); every entry of the
\* index is deleted in one batch; the listed rows are indexed in batches of
\* 100.  An error before the delete batch leaves the index as it was, an
\* error of the index batch leaves it empty.
Rebuild ==
    /\ Stopped
    /\ \E r \in {"error", "emptied", "rebuilt"} :
        index' = [k \in Keys |->
                    IF r = "error" THEN index[k]
                    ELSE IF r = "rebuilt" /\ k \in List(FALSE)
                         THEN db[k].updatedAt
                    ELSE 0]
    /\ UNCHANGED <<otherVars, remote, db, maxPosts, enableEmbeddings, mainpc,
                   runs, allPosts, archivedPostIDs, pc, existing, docEmb, tmp,
                   mu, stats, processed, result, cancelled, calls, counted,
                   delFailed, db0, index0, listing, listErr, prev, reporter>>

ReindexNext == Next \/ Rebuild

\* runSync builds the worker without a cap.
ReindexInit == Init /\ maxPosts = 0

ReindexSpec == ReindexInit /\ [][ReindexNext]_vars

\* ------------------------------------------------- the progress reporter
\* what no step of the ticker or of the progress goroutine writes
reporterFrame == <<remote, db, index, maxPosts, enableEmbeddings, mainpc, runs,
                   allPosts, archivedPostIDs, pc, existing, docEmb, tmp, stats,
                   processed, result, cancelled, calls, counted, delFailed,
                   db0, index0, listing, listErr, prev, otherVars>>

\* Sync lines 109-114: the ticker sends a value on progressTicker.C, the
\* goroutine receives it and takes the mutex.  The ticker sends from its
\* creation until the deferred Stop, which runs when Sync returns; a value
\* sent just before Stop can be received after Sync has returned.
ReporterLock ==
    /\ mainpc \in {"workers", "returned"}
    /\ reporter = "range"
    /\ MuFree
    /\ mu' = Lock(Reporter)
    /\ reporter' = "locked"
    /\ UNCHANGED reporterFrame

\* Sync lines 115-132: the counters are read, the mutex is released, the
\* progress line is printed, and the goroutine waits for the next value.
\* Stop does not close the channel: the range loop has no exit.
ReporterUnlock ==
    /\ mainpc # "crashed"
    /\ reporter = "locked"
    /\ mu' = mu \ {Reporter}
    /\ reporter' = "range"
    /\ UNCHANGED reporterFrame

ReporterStep == ReporterLock \/ ReporterUnlock

\* runSync: no cap; the embedding service is available.
ReporterInit == Init /\ maxPosts = 0 /\ enableEmbeddings

ReporterNext ==
    \/ \E k \in Keys : RemoteCreate(k)
    \/ \E k \in Keys : RemoteEdit(k)
    \/ \E k \in Keys : RemoteArchive(k)
    \/ Sync
    \/ \E d \in Keys : Worker(d)
    \/ FinishSync
    \/ Exit
    \/ ReporterStep

ReporterSpec == ReporterInit /\ [][ReporterNext]_vars

\* goroutines that are runnable get to run
FairReporterSpec ==
    /\ ReporterInit
    /\ [][ReporterNext]_vars
    /\ WF_vars(RunStep)
    /\ WF_vars(ReporterUnlock)

\* --------------------------------------------------------- the worker pool
\* Sync lines 95-99 and 135-153 with many posts: the channel is filled and
\* closed, `concurrency` goroutines receive from it until it is drained, and
\* each calls syncPost for the post it received.  A syncPost call returns
\* at once, or blocks (a request that gets no answer) and may return later.
Posts == 1..QueueLen

\* mutant: one goroutine per post
GoroutinePerPost == QueueLen

\* Sync line 135: for range concurrency { go func() ... }
Goroutines == concurrency

\* the posts whose syncPost call blocks: the first k of the channel, or one
SlowSets == {1..k : k \in 0..QueueLen} \cup {{j} : j \in Posts}

QueueInit ==
    /\ db = [k \in Keys |-> NoRow]
    /\ db0 = db
    /\ SyncInit
    /\ maxPosts = 0
    /\ enableEmbeddings = FALSE
    /\ hits = <<>>
    /\ search = NoSearch
    /\ vec = <<>>
    /\ data = <<>>
    /\ codec = NoCodec
    /\ now = 0
    /\ embed = NoEmbed
    /\ postChan = [i \in 1..QueueLen |-> i]
    /\ workers = EmptyBag
    /\ received = [d \in Posts |-> 0]
    /\ slow \in SlowSets
    /\ finished = {}

queueFrame == <<syncVars, searchVars, codecVars, embedVars, slow>>

\* the posts a syncPost call is in
InProcess == BagToSet(workers)

\* Sync line 139: one of the goroutines waiting in `for post := range
\* postChan` receives the first post of the channel (the goroutines are
\* alike: `workers` holds what the busy ones are at), and line 140: its
\* syncPost call returns, or blocks.
Receive ==
    /\ postChan # <<>>
    /\ BagCardinality(workers) < Goroutines
    /\ LET post == Head(postChan)
       IN /\ postChan' = Tail(postChan)
          /\ received' = [received EXCEPT ![post] = @ + 1]
          /\ IF post \in slow
             THEN /\ workers' = workers (+) SetToBag({post})
                  /\ UNCHANGED finished
             ELSE /\ finished' = finished \cup {post}
                  /\ UNCHANGED workers
    /\ UNCHANGED queueFrame

\* a blocked syncPost call returns (the blocked calls return in the order
\* they were made), and its goroutine goes back to the channel.
Return ==
    /\ \E post \in InProcess :
          /\ \A d \in InProcess : post <= d
          /\ finished' = finished \cup {post}
          /\ workers' = workers (-) SetToBag({post})
    /\ UNCHANGED <<queueFrame, postChan, received>>

QueueNext == Receive \/ Return

QueueSpec == QueueInit /\ [][QueueNext]_vars

\* a goroutine that can receive does; a blocked call may never return
FairQueueSpec ==
    /\ QueueInit
    /\ [][QueueNext]_vars
    /\ WF_vars(Receive)

\* =================================================================== claims
Returned == mainpc = "returned"
Listed == {listing[i].ID : i \in 1..Len(listing)}
ListedArchived == {listing[i].ID : i \in {j \in 1..Len(listing) : listing[j].ArchivedAt}}
Outcomes == {"NewPosts", "UpdatedPosts", "SkippedPosts", "Errors"}
CountedIn(field) == {d \in Keys : field \in counted[d]}
Sum4 == stats.NewPosts + stats.UpdatedPosts + stats.SkippedPosts
        + stats.ArchivedRemoved

\* the row of d existed when the run started, with the remote's updated_at
UnchangedAtStart(d) ==
    /\ d \in allPosts
    /\ db0[d].present
    /\ db0[d].updatedAt = SlimPostOf(d).UpdatedAt

LookupFirst ==
    \A d \in allPosts : calls[d] # {} => "GetUpdatedAt" \in calls[d]

\* C1 as stated: an unchanged document is looked up before any fetch, nothing
\* is fetched, stored or indexed for it, and it is counted under skipped.
C1_Original ==
    /\ LookupFirst
    /\ \A d \in allPosts : UnchangedAtStart(d) =>
        /\ calls[d] \subseteq {"GetUpdatedAt"}
        /\ Returned => counted[d] = {"SkippedPosts"}

\* C1 (amended): for every document the run queues whose row existed at the
\* start of the run with the remote's updated_at, the lookup is the first
\* call and the only one (no body fetch, no owner fetch, no embedding, no
\* upsert, no index write: row and index entry stay as they were); once
\* processed it is counted exactly once: under skipped when the lookup
\* succeeded, under errors when the lookup failed.
C1_SkipBeforeFetch ==
    /\ LookupFirst
    /\ \A d \in allPosts : UnchangedAtStart(d) =>
        /\ calls[d] \subseteq {"GetUpdatedAt"}
        /\ db[d] = db0[d] /\ index[d] = index0[d]
        /\ pc[d] = "done" =>
              counted[d] = IF existing[d] # ZeroTime
                           THEN {"SkippedPosts"} ELSE {"Errors"}
    /\ Returned =>
          stats.SkippedPosts = Cardinality(CountedIn("SkippedPosts"))

C1_Witness ==
    /\ Returned
    /\ \E d \in allPosts :
          UnchangedAtStart(d) /\ counted[d] = {"SkippedPosts"}

AllSkipped ==
    /\ stats.NewPosts = 0
    /\ stats.UpdatedPosts = 0
    /\ stats.SkippedPosts = stats.TotalPosts

ActiveBefore(i) == Cardinality({j \in 1..(i - 1) : ~listing[j].ArchivedAt})
CapStops == {i \in 1..Len(listing) :
                maxPosts > 0 /\ ~listing[i].ArchivedAt /\ ActiveBefore(i) >= maxPosts}
DroppedByCap == {listing[i].ID : i \in {j \in 1..Len(listing) :
                                          \E b \in CapStops : b <= j}}

C4_FailureIsolated ==
    /\ mainpc # "crashed"
    /\ Returned =>
        /\ result = "stats"
        /\ \A d \in allPosts :
              pc[d] = "done" /\ Cardinality(counted[d] \cap Outcomes) = 1
        /\ stats.Errors = Cardinality(CountedIn("Errors"))

\* C5: in every state of a run, each counter the workers increment equals
\* the number of documents for which its increment has been executed, and
\* processed the number of documents done: no increment is lost, whatever
\* the interleaving; so the returned counters are the per-outcome document
\* counts, as in a sequential run with the same collaborator outcomes.
C5_CountersExact ==
    /\ \A f \in {"NewPosts", "UpdatedPosts", "SkippedPosts", "Errors",
                 "EmbeddingsGen", "EmbeddingsFailed"} :
          mu = {} => stats[f] = Cardinality(CountedIn(f))
    /\ mu = {} => processed = Cardinality({d \in Keys : pc[d] = "done"})
    /\ Returned => mu = {}

C5_Witness ==
    /\ Returned
    /\ stats.NewPosts = 2
    /\ stats.EmbeddingsGen = 2

\* C6: after a run whose listing marks a previously indexed document as
\* archived (and in which no index deletion reported an error), the document
\* has no index entry and its row exists, unmodified.
C6_ArchivedLeavesIndex ==
    (Returned /\ delFailed = {}) =>
        \A d \in ListedArchived : index0[d] # 0 =>
            /\ index[d] = 0
            /\ db[d].present
            /\ db[d] = db0[d]

\* C7: after a run that saw a document as archived, vector-only search over
\* either embedding slot does not rank that document.
C7_ArchivedNotRanked ==
    Returned =>
        \A d \in ListedArchived :
            d \notin SemanticCandidates(FALSE) \cup SemanticCandidates(TRUE)

\* C8: when the listing fails, Sync returns an error and no stats; no worker
\* has been started, no collaborator called, and store and index are as
\* before the call.
C8_ListingFailure ==
    listErr =>
        /\ mainpc = "failed"
        /\ result = "error"
        /\ \A k \in Keys : pc[k] = "none" /\ calls[k] = {}
        /\ db = db0
        /\ index = index0

C8_Witness ==
    /\ listErr
    /\ result = "error"
    /\ \E k \in Keys : db[k].present /\ index[k] # 0

\* C9: once the listing has succeeded, the run eventually returns its stats.
C9_EventuallyReturns == (mainpc = "workers") ~> (mainpc = "returned")

\* C10: once ctx is cancelled, no call is made for a document that is still
\* in the queue.
C10_CancelStopsQueue ==
    [][(Running /\ cancelled) =>
          \A d \in Keys : pc[d] = "queued" => calls'[d] = {}]_vars

EmbedFailed(d) == "EmbeddingsFailed" \in counted[d]

\* C11 as stated: a processed document whose embedding call failed is
\* persisted and indexed, counted under new or updated and under
\* EmbeddingsFailed, and not under Errors.
C11_Original ==
    \A d \in allPosts : (pc[d] = "done" /\ EmbedFailed(d)) =>
        /\ db[d] = Document(SlimPostOf(d).UpdatedAt, FALSE, <<>>)
        /\ index[d] = SlimPostOf(d).UpdatedAt
        /\ counted[d] = {"EmbeddingsFailed", CountField(existing[d])}

\* C11 (amended): with embedding generation enabled, a document whose
\* embedding call failed still goes through the upsert; when the upsert and
\* the index write succeed it is persisted without an embedding, indexed,
\* counted under new or updated and under EmbeddingsFailed and not under
\* Errors; when the upsert or the index write fails it is counted under
\* Errors and under EmbeddingsFailed.  EmbeddingsFailed is the number of such
\* documents, and a run that returns has processed every queued document.
C11_EmbedFailureDegrades ==
    /\ \A d \in allPosts : EmbedFailed(d) =>
        /\ enableEmbeddings
        /\ "Embed" \in calls[d]
        /\ "EmbeddingsGen" \notin counted[d]
        /\ pc[d] = "done" =>
            /\ "Upsert" \in calls[d]
            /\ IF "Errors" \in counted[d]
               THEN counted[d] = {"EmbeddingsFailed", "Errors"}
               ELSE /\ db[d] = Document(SlimPostOf(d).UpdatedAt, FALSE, <<>>)
                    /\ index[d] = SlimPostOf(d).UpdatedAt
                    /\ counted[d] = {"EmbeddingsFailed", CountField(existing[d])}
    /\ Returned =>
        /\ stats.EmbeddingsFailed = Cardinality({d \in Keys : EmbedFailed(d)})
        /\ \A d \in allPosts : pc[d] = "done"

C11_Witness ==
    /\ Returned
    /\ \E d, e \in allPosts :
        /\ d # e
        /\ counted[d] = {"EmbeddingsFailed", "UpdatedPosts"}
        /\ db[d].present /\ db[d].embedding = <<>> /\ db0[d].embedding # <<>>
        /\ e \in CountedIn("EmbeddingsGen")

\* C12: in every state (so in every snapshot the progress reporter reads
\* under the mutex, and in the returned stats)
\* NewPosts + UpdatedPosts + SkippedPosts <= TotalPosts.
C12_OutcomesWithinTotal ==
    stats.NewPosts + stats.UpdatedPosts + stats.SkippedPosts <= stats.TotalPosts

C12_Witness ==
    /\ Running
    /\ mu = {}
    /\ stats.NewPosts + stats.UpdatedPosts + stats.SkippedPosts = 1
    /\ stats.TotalPosts = 2
    /\ \E d \in allPosts : pc[d] \in {"lockCount", "lockSkipped"}

\* C21: after a run, every active document of the run whose row stores the
\* listing's updated_at has an index entry built from that same version.
C21_RowIndexConsistent ==
    Returned =>
        \A d \in allPosts :
            (db[d].present /\ db[d].updatedAt = SlimPostOf(d).UpdatedAt) =>
                index[d] = db[d].updatedAt

\* C23: with a cap configured, after a run in which no index deletion
\* failed, no archived document of the listing has an index entry, wherever
\* it stands in the listing.
C23_CapKeepsArchivedRemoval ==
    (Returned /\ maxPosts > 0 /\ delFailed = {}) =>
        \A d \in ListedArchived : index[d] = 0

\* C22: between sync runs, no step puts back into the lexical index a
\* document that the most recent run saw as archived and that has no entry.
C22_RebuildKeepsArchivedOut ==
    [][(Stopped /\ prev.returned) =>
          \A d \in ListedArchived : index[d] = 0 => index'[d] = 0]_vars

WorkerCounters == {"NewPosts", "UpdatedPosts", "SkippedPosts", "EmbeddingsGen",
                   "EmbeddingsFailed", "Errors"}

\* C25 as stated: every step of a run that changes one of the counters,
\* ArchivedRemoved included, is taken by a goroutine that holds the mutex.
C25_Original ==
    [][Running =>
          \A f \in WorkerCounters \cup {"ArchivedRemoved"} :
              stats'[f] # stats[f] => \E d \in Keys : mu = {d}]_vars

\* C25 (amended): at most one goroutine holds the run's mutex; every
\* increment of NewPosts, UpdatedPosts, SkippedPosts, EmbeddingsGen,
\* EmbeddingsFailed, Errors and of the processed counter is made by a worker
\* that holds the mutex, from the value it read while holding it; a worker
\* reads a counter only with the mutex taken; the progress reporter reads
\* the counters only while it holds the mutex.  (ArchivedRemoved is
\* incremented without the mutex, by the goroutine that called Sync, after
\* every worker has returned; the reporter does not read it.)
C25_CountersUnderMutex ==
    [][/\ Cardinality(mu) <= 1
       /\ reporter = "locked" => mu = {Reporter}
       /\ Running =>
            /\ \A f \in WorkerCounters : stats'[f] # stats[f] =>
                  \E d \in allPosts :
                      mu = {d} /\ tmp[d] = stats[f] /\ stats'[f] = tmp[d] + 1
            /\ processed' # processed =>
                  \E d \in allPosts :
                      mu = {d} /\ tmp[d] = processed /\ processed' = tmp[d] + 1
            /\ \A d \in allPosts : (tmp'[d] # tmp[d] /\ d \notin mu) =>
                  mu = {} /\ mu' = {d}]_vars

C25_Witness ==
    /\ Running
    /\ reporter = "locked"
    /\ stats.NewPosts = 1
    /\ \E d \in allPosts : pc[d] = "lockCount"

\* C27: once Sync has returned, the progress goroutine it started eventually
\* is no longer alive.
C27_ReporterTerminates ==
    (mainpc = "returned") ~> (reporter \notin {"range", "locked"})

InChannel == {postChan[i] : i \in 1..Len(postChan)}

\* C26: a post is in the channel and has been received by nobody, or it is
\* out of the channel and has been received exactly once; no two workers
\* are in a syncPost call for the same post; at most `concurrency` (20) posts are
\* in a syncPost call at any moment; and when fewer than 20 calls block, all
\* the other posts are eventually processed, although the blocked calls
\* never return.
C26_SharedQueue ==
    /\ [](\A d \in Posts :
            /\ received[d] = IF d \in InChannel THEN 0 ELSE 1
            /\ d \in finished \cup InProcess => received[d] = 1
            /\ d \in finished => d \notin InProcess)
    /\ [](\A d \in InProcess : CopiesIn(d, workers) = 1)
    /\ [](BagCardinality(workers) <= concurrency)
    /\ (Cardinality(slow) < concurrency) ~> (Posts \ slow \subseteq finished)

C26_Witness ==
    /\ Cardinality(InProcess) = concurrency
    /\ Len(postChan) = 1
    /\ Head(postChan) \notin slow
    /\ finished # {}

FetchFailures == {"GetMarkdown failed", "GetPost failed"}

\* the timestamp lookup of d returned an error
LookupFailed(d) ==
    /\ calls[d] = {"GetUpdatedAt"}
    /\ pc[d] \in {"lockErrors", "incErrors"} \/ "Errors" \in counted[d]

\* C28: a document whose timestamp lookup, body fetch or owner-metadata
\* fetch returned an error has, from then on, the row and the index entry it
\* had when the run started: no embedding call, no upsert and no index write
\* is made for it, the stored updated_at a later lookup finds is the one of
\* the start of the run, and once processed it is counted under Errors only.
C28_FailedFetchWritesNothing ==
    \A d \in allPosts :
        (LookupFailed(d) \/ calls[d] \cap FetchFailures # {}) =>
            /\ db[d] = db0[d]
            /\ index[d] = index0[d]
            /\ calls[d] \cap {"Embed", "Upsert", "IndexDocument"} = {}
            /\ GetUpdatedAt(d) =
                  (IF db0[d].present THEN db0[d].updatedAt ELSE ZeroTime)
            /\ pc[d] = "done" => counted[d] = {"Errors"}

C28_Witness ==
    /\ Returned
    /\ \E d, e \in allPosts :
        /\ d # e
        /\ "GetPost failed" \in calls[d]
        /\ db0[d].present /\ index0[d] # 0
        /\ db0[d].updatedAt # SlimPostOf(d).UpdatedAt
        /\ "GetMarkdown failed" \in calls[e]

\* C30 as stated: at the end of a run EmbeddingsGen <= NewPosts +
\* UpdatedPosts.
C30_Original ==
    Returned => stats.EmbeddingsGen <= stats.NewPosts + stats.UpdatedPosts

\* C30 (amended): a document is counted under EmbeddingsGen only when
\* embeddings are enabled and its Embed call succeeded, and never also under
\* EmbeddingsFailed; once processed it has gone through the upsert and is
\* counted under exactly one of new, updated, errors: under new or updated
\* when it was persisted with that embedding and indexed, under errors when
\* the upsert or the index write failed.  At the end of a run EmbeddingsGen
\* is the number of these documents, so
\* EmbeddingsGen <= NewPosts + UpdatedPosts + Errors.
C30_EmbeddingsGenCounted ==
    /\ \A d \in allPosts : "EmbeddingsGen" \in counted[d] =>
        /\ enableEmbeddings
        /\ "Embed" \in calls[d]
        /\ "EmbeddingsFailed" \notin counted[d]
        /\ pc[d] = "done" =>
            /\ "Upsert" \in calls[d]
            /\ IF "Errors" \in counted[d]
               THEN counted[d] = {"EmbeddingsGen", "Errors"}
               ELSE /\ counted[d] = {"EmbeddingsGen", CountField(existing[d])}
                    /\ db[d] = Document(SlimPostOf(d).UpdatedAt, FALSE,
                          SerializeEmbedding(EmbedResult(SlimPostOf(d).UpdatedAt)))
                    /\ index[d] = SlimPostOf(d).UpdatedAt
    /\ Returned =>
        /\ stats.EmbeddingsGen = Cardinality(CountedIn("EmbeddingsGen"))
        /\ stats.EmbeddingsGen
              <= stats.NewPosts + stats.UpdatedPosts + stats.Errors

C30_Witness ==
    /\ Returned
    /\ stats.EmbeddingsGen = 2
    /\ stats.Errors = 1
    /\ stats.NewPosts + stats.UpdatedPosts = 1

\* ======================================================== retrieval calls
\* HybridSearch line 83: candidateLimit := limit * 3.
candidateFactor == 3

Floats(values) == [i \in 1..Len(values) |-> Float32bits(values[i])]
Bytes(values) == SerializeEmbedding(Floats(values))

Row(archivedAt, embedding, embeddingQwen) ==
    [updatedAt |-> 1, archivedAt |-> archivedAt, embedding |-> embedding,
     embeddingQwen |-> embeddingQwen, present |-> TRUE]

\* rows of the documents table: archived with embeddings; no primary
\* embedding; blobs whose length is not a multiple of 4; embeddings of the
\* query's dimension; an alternate embedding of another dimension.
RowMenu ==
    <<Row(TRUE, Bytes(<<1, 0>>), Bytes(<<1, 0>>)),
      Row(FALSE, <<>>, Bytes(<<0, 1>>)),
      Row(FALSE, <<1, 2, 3>>, <<1, 2, 3, 4, 5>>),
      Row(FALSE, Bytes(<<1, 0>>), <<>>),
      Row(FALSE, Bytes(<<3, 4>>), Bytes(<<1, 0>>)),
      Row(FALSE, Bytes(<<0, 1>>), Bytes(<<4>>))>>

\* the tables a retrieval call can find: any rows of the menu; which key has
\* which row makes no difference to a call (the hits come in every order of
\* the keys), so the rows are taken in the order of the menu
Tables ==
    {[k \in Keys |-> RowMenu[f[k]]] :
        f \in {g \in [Keys -> 1..Len(RowMenu)] :
                  \A k \in Keys : k < NumKeys => g[k] <= g[k + 1]}}

Queries == {Floats(<<1, 0>>), Floats(<<3, 4>>)}
Limits == 1..MaxLimit
Weights == {<<n, 2>> : n \in -1..3}

\* what the lexical index can answer for a query string: hits with distinct
\* ids, best first
HitLists ==
    {h \in UNION {[1..n -> [ID : Keys, Score : {<<x, 1>> : x \in 1..MaxHitScore}]] :
                    n \in 0..NumKeys} :
        /\ \A i, j \in 1..Len(h) : h[i].ID = h[j].ID => i = j
        /\ SortedDesc(h)}

SearchInit ==
    /\ db \in Tables
    /\ db0 = db
    /\ SyncInit
    /\ maxPosts = 0
    /\ enableEmbeddings = FALSE
    /\ hits \in HitLists
    /\ search = NoSearch
    /\ vec = <<>>
    /\ data = <<>>
    /\ codec = NoCodec
    /\ now = 0
    /\ embed = NoEmbed
    /\ QueueIdle

Returns(op, q, limit, useQwen, w, err, results, reads, kw, sem) ==
    search' = [op |-> op, queryEmbedding |-> q, limit |-> limit,
               useQwen |-> useQwen, keywordWeight |-> w, err |-> err,
               results |-> results, reads |-> reads,
               keywordResults |-> kw, semanticResults |-> sem,
               keywordScores |-> normalizeScores(kw),
               semanticScores |-> normalizeScores(sem)]

\* Index.SemanticSearch: List fails, or the scored documents are returned.
CallSemanticSearch ==
    /\ search.op = "none"
    /\ \E q \in Queries, limit \in Limits, useQwen \in BOOLEAN, listOk \in BOOLEAN :
        IF ~listOk
        THEN Returns("SemanticSearch", q, limit, useQwen, Zero, "List", <<>>,
                     {"List"}, <<>>, <<>>)
        ELSE \E r \in SemanticSearch(q, limit, useQwen) :
                Returns("SemanticSearch", q, limit, useQwen, Zero, "nil", r,
                        {"List"}, <<>>, <<>>)
    /\ UNCHANGED <<syncVars, hits, codecVars, embedVars, queueVars>>

\* Index.HybridSearch: the weight check, the two searches, the merge.
CallHybridSearch ==
    /\ search.op = "none"
    /\ \E q \in Queries, limit \in Limits, useQwen \in BOOLEAN, w \in Weights,
          fail \in {"none", "Search", "List"} :
        IF InvalidWeight(w)
        THEN /\ fail = "none"
             /\ Returns("HybridSearch", q, limit, useQwen, w, "keywordWeight",
                        <<>>, {}, <<>>, <<>>)
        ELSE IF fail = "Search"
        THEN Returns("HybridSearch", q, limit, useQwen, w, "Search", <<>>,
                     {"Search"}, <<>>, <<>>)
        ELSE IF fail = "List"
        THEN Returns("HybridSearch", q, limit, useQwen, w, "List", <<>>,
                     {"Search", "List"}, Search(limit * candidateFactor), <<>>)
        ELSE \E sem \in SemanticSearch(q, limit * candidateFactor, useQwen) :
             \E r \in HybridSearch(Search(limit * candidateFactor), sem,
                                   limit, w) :
                Returns("HybridSearch", q, limit, useQwen, w, "nil", r,
                        {"Search", "List"},
                        Search(limit * candidateFactor), sem)
    /\ UNCHANGED <<syncVars, hits, codecVars, embedVars, queueVars>>

SearchNext == CallSemanticSearch \/ CallHybridSearch

SearchSpec == SearchInit /\ [][SearchNext]_vars

\* ====================================================== the embed command
\* a row with its synced_at column
WithSyncedAt(doc, syncedAt) ==
    [f \in DOMAIN doc \cup {"syncedAt"} |->
        IF f = "syncedAt" THEN syncedAt ELSE doc[f]]

EmbedInit ==
    /\ db = [k \in Keys |-> NoRow]
    /\ db0 = db
    /\ SyncInit
    /\ maxPosts = 0
    /\ hits = <<>>
    /\ search = NoSearch
    /\ vec = <<>>
    /\ data = <<>>
    /\ codec = NoCodec
    /\ now = 0
    /\ embed = NoEmbed
    /\ QueueIdle

embedFrame == <<remote, index, maxPosts, enableEmbeddings, mainpc, runs,
                allPosts, archivedPostIDs, pc, existing, docEmb, tmp, mu, stats,
                processed, result, cancelled, calls, counted, delFailed, db0,
                index0, listing, listErr, prev, reporter, searchVars,
                codecVars, queueVars>>

\* time passes
Tick ==
    /\ now < MaxClock
    /\ now' = now + 1
    /\ UNCHANGED <<db, embed, embedFrame>>

\* syncPost of a sync run, lines 217-257, for a post that is new or whose
\* updated_at has changed: the row is written with SyncedAt = time.Now(),
\* with the embedding of the fetched text when embeddings are enabled and
\* the Embed call succeeds.
SyncPostUpsert(k) ==
    /\ IF db[k].present THEN db[k].updatedAt < MaxTime ELSE TRUE
    /\ \E embedOk \in BOOLEAN :
        LET updatedAt == IF db[k].present THEN db[k].updatedAt + 1 ELSE 1
            embedding == IF enableEmbeddings /\ embedOk
                         THEN SerializeEmbedding(EmbedResult(updatedAt))
                         ELSE <<>>
        IN db' = [db EXCEPT ![k] = UpsertRow(db[k],
                     WithSyncedAt(Document(updatedAt, FALSE, embedding), now))]
    /\ UNCHANGED <<now, embed, embedFrame>>

\* the rows of db.List(false) in its order, updated_at descending
ListedDocs ==
    {o \in [1..Cardinality(List(FALSE)) -> {[ID |-> k, row |-> db[k]] : k \in List(FALSE)}] :
        /\ \A i, j \in DOMAIN o : o[i] = o[j] => i = j
        /\ \A i, j \in DOMAIN o : i < j => o[i].row.updatedAt >= o[j].row.updatedAt}

\* runEmbed lines 396-457: the model flag, db.List(false), the resume point.
EmbedList ==
    /\ embed.pc = "none"
    /\ \E useQwenField \in BOOLEAN, docs \in ListedDocs :
        \E startIdx \in {i \in 0..Len(docs) : i = 0 \/ i < Len(docs)} :
            embed' = [pc |-> "loop", docs |-> docs, i |-> startIdx,
                      useQwenField |-> useQwenField]
    /\ UNCHANGED <<db, now, embedFrame>>

\* runEmbed lines 462-501: one document of the loop: the embedding is put in
\* the document read by List and the whole document is written back.
EmbedDoc ==
    /\ embed.pc = "loop"
    /\ embed.i < Len(embed.docs)
    /\ LET doc == embed.docs[embed.i + 1]
           serializedEmbedding == SerializeEmbedding(EmbedResult(doc.row.updatedAt))
       IN \E embedOk \in BOOLEAN, upsertOk \in BOOLEAN :
            IF embedOk /\ upsertOk
            THEN db' = [db EXCEPT ![doc.ID] = UpsertRow(db[doc.ID],
                          IF embed.useQwenField
                          THEN [doc.row EXCEPT !.embeddingQwen = serializedEmbedding]
                          ELSE [doc.row EXCEPT !.embedding = serializedEmbedding])]
            ELSE /\ ~embedOk => upsertOk
                 /\ UNCHANGED db
    /\ embed' = [embed EXCEPT !.i = @ + 1]
    /\ UNCHANGED <<now, embedFrame>>

\* runEmbed lines 503-517: the loop is over.
EmbedDone ==
    /\ embed.pc = "loop"
    /\ embed.i >= Len(embed.docs)
    /\ embed' = [pc |-> "done"]
    /\ UNCHANGED <<db, now, embedFrame>>

EmbedNext ==
    \/ Tick
    \/ \E k \in Keys : SyncPostUpsert(k)
    \/ EmbedList
    \/ EmbedDoc
    \/ EmbedDone

EmbedSpec == EmbedInit /\ [][EmbedNext]_vars

\* C19: no write to the store lowers the synced_at of a document.
C19_SyncedAtMonotone ==
    [][\A k \in Keys :
          (db[k].present /\ db'[k].present) =>
              db'[k].syncedAt >= db[k].syncedAt]_vars

\* C29: a write that stores a document at a newer updated_at (the row is new
\* or the sync run found the post changed) leaves in the primary slot the
\* embedding of the text of that version, or nothing (always nothing when
\* embeddings are disabled), and nothing in the alternate slot, whatever the
\* row held before.
C29_FreshEmbedding ==
    [][\A k \in Keys :
          (db'[k].present /\ db'[k].updatedAt > db[k].updatedAt) =>
              /\ db'[k].embedding \in
                    {<<>>, SerializeEmbedding(EmbedResult(db'[k].updatedAt))}
              /\ ~enableEmbeddings => db'[k].embedding = <<>>
              /\ db'[k].embeddingQwen = <<>>]_vars

C29_Witness ==
    /\ enableEmbeddings
    /\ embed.pc = "loop"
    /\ embed.useQwenField
    /\ \E i \in 1..embed.i :
        LET k == embed.docs[i].ID
        IN /\ embed.docs[i].row.embedding # <<>>
           /\ db[k].updatedAt > embed.docs[i].row.updatedAt
           /\ db[k].embedding = <<>>
           /\ db[k].embeddingQwen = <<>>

\* ================================================= embedding codec calls
CodecInit ==
    /\ db = [k \in Keys |-> NoRow]
    /\ db0 = db
    /\ SyncInit
    /\ maxPosts = 0
    /\ enableEmbeddings = FALSE
    /\ hits = <<>>
    /\ search = NoSearch
    /\ vec \in Vectors
    /\ data = <<>>
    /\ codec = NoCodec
    /\ now = 0
    /\ embed = NoEmbed
    /\ QueueIdle

Serialize ==
    /\ codec.op = "none"
    /\ data' = SerializeEmbedding(vec)
    /\ codec' = [op |-> "serialized", v |-> vec]
    /\ UNCHANGED <<syncVars, searchVars, embedVars, queueVars, vec>>

Deserialize ==
    /\ codec.op = "serialized"
    /\ vec' = DeserializeEmbedding(data)
    /\ codec' = [op |-> "deserialized", v |-> codec.v]
    /\ UNCHANGED <<syncVars, searchVars, embedVars, queueVars, data>>

CodecNext == Serialize \/ Deserialize

CodecSpec == CodecInit /\ [][CodecNext]_vars

\* C20: SerializeEmbedding writes exactly 4 bytes per element, the element's
\* 32 bits least significant byte first (no bytes for an empty vector), and
\* DeserializeEmbedding of these bytes has the vector's length and, element
\* for element, the vector's values, for vectors of length 0, 1 and more.
C20_RoundTrip ==
    /\ codec.op = "serialized" =>
        /\ Len(data) = 4 * Len(vec)
        /\ \A j \in 1..Len(data) : data[j] \in 0..255
        /\ \A i \in 1..Len(vec) :
            /\ data[4 * i - 3] + 256 * data[4 * i - 2] = vec[i][2]
            /\ data[4 * i - 1] + 256 * data[4 * i] = vec[i][1]
    /\ codec.op = "deserialized" =>
        /\ Len(vec) = Len(codec.v)
        /\ \A i \in 1..Len(vec) : vec[i] = codec.v[i]

C20_Witness ==
    /\ codec.op = "deserialized"
    /\ Len(vec) = MaxDim
    /\ vec[1] = <<15820, 52429>>
    /\ vec[MaxDim] = <<49024, 0>>
    /\ Len(data) = 4 * MaxDim

\* ------------------------------------------------------ retrieval claims
Hybrid == search.op = "HybridSearch"
Semantic == search.op = "SemanticSearch"
Succeeded == search.op # "none" /\ search.err = "nil"
Weight == search.keywordWeight
ResultIDs(results) == [i \in 1..Len(results) |-> results[i].ID]
AtLeast(a, b) == a[1] * b[2] >= b[1] * a[2]

\* C13: HybridSearch with a weight below 0 or above 1 returns the
\* invalid-weight error and no results, and has queried neither the lexical
\* index nor the store.
C13_WeightRejected ==
    (Hybrid /\ (Weight[1] < 0 \/ Weight[1] > Weight[2])) =>
        /\ search.err = "keywordWeight"
        /\ search.results = <<>>
        /\ search.reads = {}

C13_Witness ==
    /\ Hybrid
    /\ Weight = <<3, 2>>
    /\ search.err = "keywordWeight"
    /\ hits # <<>>
    /\ SemanticCandidates(search.useQwen) # {}

\* the weighted normalized component of a returned document, 0 when the
\* document is not in the candidate set
KeywordTerm(id) ==
    IF id \in IDs(search.keywordResults)
    THEN Mul(Weight, search.keywordScores[id]) ELSE Zero
SemanticTerm(id) ==
    IF id \in IDs(search.semanticResults)
    THEN Mul(Sub(One, Weight), search.semanticScores[id]) ELSE Zero

\* C14: every document HybridSearch returns has the score w * (normalized
\* lexical score) if it is only a lexical candidate, (1 - w) * (normalized
\* vector score) if it is only a vector candidate, and the sum of the two if
\* it is both; so its score is at least each of its two terms.
C14_FusedScore ==
    (Hybrid /\ Succeeded) =>
        \A i \in 1..Len(search.results) :
            LET id == search.results[i].ID
                score == search.results[i].Score
            IN /\ id \in IDs(search.keywordResults) \cup IDs(search.semanticResults)
               /\ Equal(score, Add(KeywordTerm(id), SemanticTerm(id)))
               /\ AtLeast(score, KeywordTerm(id))
               /\ AtLeast(score, SemanticTerm(id))

C14_Witness ==
    /\ Hybrid /\ Succeeded
    /\ Weight = <<1, 2>>
    /\ \E i \in 1..Len(search.results) :
        LET id == search.results[i].ID
        IN /\ id \in IDs(search.keywordResults) \cap IDs(search.semanticResults)
           /\ Less(Zero, KeywordTerm(id))
           /\ Less(Zero, SemanticTerm(id))
           /\ Less(search.results[i].Score, One)

\* what C15 says of one candidate set and its normalized scores
Normalized(results, scores) ==
    LET S == {results[i].Score : i \in 1..Len(results)}
        lo == CHOOSE x \in S : \A y \in S : AtLeast(y, x)
        hi == CHOOSE x \in S : \A y \in S : AtLeast(x, y)
    IN /\ DOMAIN scores = IDs(results)
       /\ results # <<>> =>
            \A i \in 1..Len(results) :
                LET n == scores[results[i].ID]
                    x == results[i].Score
                IN /\ AtLeast(n, Zero) /\ AtLeast(One, n)
                   /\ IF Equal(lo, hi)
                      THEN n = One
                      ELSE /\ Equal(Mul(n, Sub(hi, lo)), Sub(x, lo))
                           /\ Equal(x, hi) => Equal(n, One)
                           /\ Equal(x, lo) => Equal(n, Zero)

\* C15: normalizeScores maps each candidate of a set to
\* (score - min) / (max - min), in [0,1], the maximum to 1 and the minimum to
\* 0; exactly 1.0 for every member when all scores are equal; no entries for
\* an empty set; the lexical and the vector set each on their own.
C15_Normalized ==
    Hybrid =>
        /\ Normalized(search.keywordResults, search.keywordScores)
        /\ Normalized(search.semanticResults, search.semanticScores)

C15_Witness ==
    /\ Hybrid /\ Succeeded
    /\ Len(search.keywordResults) = 1
    /\ Len(search.semanticResults) = 3
    /\ \E id \in IDs(search.semanticResults) :
          Less(Zero, search.semanticScores[id]) /\ Less(search.semanticScores[id], One)

\* C16: HybridSearch with w = 0 returns the documents of some vector-only
\* top-N for the same arguments, in its order, and with w = 1 the documents
\* of the lexical top-N, in its order.
C16_WeightLimits ==
    (Hybrid /\ Succeeded) =>
        /\ Weight = <<0, 2>> =>
              \E r \in SemanticSearch(search.queryEmbedding, search.limit,
                                      search.useQwen) :
                  ResultIDs(search.results) = ResultIDs(r)
        /\ Weight = <<2, 2>> =>
              ResultIDs(search.results) = ResultIDs(Search(search.limit))

\* C17: a result list of vector-only or hybrid search is in non-increasing
\* order of score, has at most `limit` entries and no key twice.
C17_ResultList ==
    Succeeded =>
        /\ \A i, j \in 1..Len(search.results) :
              i < j => AtLeast(search.results[i].Score, search.results[j].Score)
        /\ Len(search.results) <= search.limit
        /\ \A i, j \in 1..Len(search.results) :
              search.results[i].ID = search.results[j].ID => i = j

C17_Witness ==
    /\ Hybrid /\ Succeeded
    /\ search.limit = 2
    /\ Len(search.results) = 2
    /\ Less(search.results[2].Score, search.results[1].Score)
    /\ Cardinality(IDs(search.keywordResults) \cup IDs(search.semanticResults)) = 3

SelectedSlot(k) ==
    IF search.useQwen THEN db[k].embeddingQwen ELSE db[k].embedding
Decodable(k) == Len(SelectedSlot(k)) > 0 /\ Len(SelectedSlot(k)) % 4 = 0

\* C18: vector-only search returns an error only when the store's List does;
\* a document that is archived, or whose selected slot is empty or has a
\* length that is not a multiple of 4, is not returned; every other document
\* is scored (all of them are returned when they are fewer than the limit),
\* and a returned document's score is the cosine similarity of the query and
\* the selected slot, whatever the other slot holds.
C18_SkipsBadEmbeddings ==
    Semantic =>
        /\ search.err \in {"nil", "List"}
        /\ Succeeded =>
            LET scored == {k \in Keys : db[k].present /\ ~db[k].archivedAt
                                          /\ Decodable(k)}
            IN /\ IDs(search.results) \subseteq scored
               /\ Len(search.results) = Min(search.limit, Cardinality(scored))
               /\ \A i \in 1..Len(search.results) :
                     Equal(search.results[i].Score,
                           CosineSimilarity(search.queryEmbedding,
                               DeserializeEmbedding(
                                   SelectedSlot(search.results[i].ID))))

C18_Witness ==
    /\ Semantic /\ Succeeded
    /\ search.useQwen
    /\ Len(search.results) = 1
    /\ \E k \in Keys : Len(db[k].embeddingQwen) = 5 /\ Len(db[k].embedding) = 3
    /\ \E k \in Keys : db[k].embeddingQwen = <<>> /\ db[k].embedding # <<>>
                        /\ ~db[k].archivedAt

\* C24: every document vector-only search returns has, in the selected slot,
\* an embedding of the query vector's dimension.
C24_DimensionMismatchExcluded ==
    (Semantic /\ Succeeded) =>
        \A i \in 1..Len(search.results) :
            Len(DeserializeEmbedding(SelectedSlot(search.results[i].ID)))
                = Len(search.queryEmbedding)

====
